---- MODULE Spec2Model ----
(***************************************************************************)
(* Campflow -> Google Sheets synchronisation (src/main.py,                 *)
(* src/campflow_api.py, src/sheets_handler.py).                            *)
(*                                                                         *)
(* Strings are modelled as sequences of tokens: "" is << >>, and the       *)
(* literals the code searches for (" aus ", the en dash, "bestaetigt" for  *)
(* the word with a-umlaut, ...) are single tokens; "unbestaetigt" is the  *)
(* two tokens "un", "bestaetigt".  Column A of the sheet holds decimal     *)
(* strings.                                                                *)
(* Timestamps are [wall, zone] with wall in hours.  Durations are in       *)
(* tenths of a second.  sha256 is taken to be collision free.              *)
(***************************************************************************)
EXTENDS Integers, Sequences, FiniteSets, TLC

VARIABLES
    reserved,      \* GoogleSheetHandler.reserved
    poll_seconds,  \* CampflowAPI.poll_seconds (tenths of a second)
    counter,       \* CampflowAPI._counter
    sheet,         \* worksheet cells: physical row -> <<column A, column B>>
    colour,        \* worksheet background colour of column B per physical row
    last_fp,       \* main: last_fp
    pc,            \* main: position in the while loop
    rows,          \* main: rows of the running tick
    fp,            \* main: fp of the running tick
    updates,       \* main: updates of the running tick
    formats,       \* main: formats of the running tick
    status,        \* what the last finished tick printed: synced / failed / nothing
    tz,            \* UTC offset of the machine's local time zone, in hours
    fetched,       \* Row Builder on its own: data["data"] as _fetch returned it
    retry,         \* <<RowSet>> of the latest tick whose apply raised, while the source keeps yielding it
    probe          \* a pure function on its own: <<input, output, previous input, previous output>>

vars == <<reserved, poll_seconds, counter, sheet, colour, last_fp, pc, rows, fp,
          updates, formats, status, retry, probe, tz, fetched>>

\* ------------------------------------------------------------------ bounds
MaxN == 2          \* records in one payload
MaxLoopN == 1      \* records in one payload, where only the control flow of the loop is examined
MaxPos == 80       \* positions the Position Mapper is examined on

\* ------------------------------------------------------- program constants
DefaultReserved == 72
SnapshotEvery == 100       \* 10 s, in tenths of a second

None == <<>>               \* Python's None; every digest is a non-empty tuple

\* ------------------------------------------------------------ input domains
TeamNames == {<<"A">>, <<"B">>}
VillageNames == {<<"X">>}
LabelSets == {{}, {"Bezahlt"}}
Stamps ==
    {[wall |-> 10, zone |-> "Z", short |-> FALSE],
     [wall |-> 10, zone |-> "+01:00", short |-> FALSE]}
\* the loop runs on a machine on Central European Time
LoopOffsets == {1}
CancellationDates == {"", "2024-02-01"}
PollChoices == {100}
ReservedChoices == {DefaultReserved}

\* a record of data["data"]; absent holds the keys the JSON object does not have
Records ==
    [team : TeamNames, village : VillageNames, label_names : LabelSets,
     creation_date : Stamps, cancellation_date : CancellationDates, absent : {{}}]

RECURSIVE SeqsUpTo(_, _)
SeqsUpTo(S, n) ==
    IF n = 0 THEN {<<>>}
    ELSE LET shorter == SeqsUpTo(S, n - 1)
         IN  shorter \cup {Append(s, x) : s \in {t \in shorter : Len(t) = n - 1}, x \in S}

Payloads(n) == SeqsUpTo(Records, n)

\* ------------------------------------------------------------ string helpers
AUS == " aus "
SPACE == " "
ENDASH == "[en dash]"
HYPHEN == "-"

RECURSIVE LStrip(_)
LStrip(s) == IF s # <<>> /\ Head(s) = SPACE THEN LStrip(Tail(s)) ELSE s

RECURSIVE RStrip(_)
RStrip(s) ==
    IF s # <<>> /\ s[Len(s)] = SPACE THEN RStrip(SubSeq(s, 1, Len(s) - 1)) ELSE s

Strip(s) == RStrip(LStrip(s))

Contains(s, tok) == \E i \in 1..Len(s) : s[i] = tok

\* s.split(tok)[0]
SplitFirst(s, tok) ==
    IF Contains(s, tok)
    THEN SubSeq(s, 1, (CHOOSE i \in 1..Len(s) :
                          s[i] = tok /\ \A j \in 1..(i - 1) : s[j] # tok) - 1)
    ELSE s

EndsWith(s, suffix) ==
    /\ Len(s) >= Len(suffix)
    /\ SubSeq(s, Len(s) - Len(suffix) + 1, Len(s)) = suffix

\* ------------------------------------------------------------ campflow_api
TEAM_NAME_COL == "team"
VILLAGE_COL == "village"
LABEL_PAID == "Bezahlt"

UtcOffset(zone) ==
    CASE zone = "+00:00" -> 0
      [] zone = "+01:00" -> 1
      [] zone = "-01:00" -> 0 - 1

\* line 61, "+" in s[-6:] or "-" in s[-6:]: the sign of an offset, or the "-" of the
\* date when the string ends after the date or after the hour (s.short)
HasSign(s) == s.zone \in {"+00:00", "+01:00", "-01:00"} \/ s.short

\* make_rows.to_dt: the UTC instant of a creation_date.  A string that passes the test
\* of line 61 without an offset is parsed to a naive datetime, which astimezone takes
\* as local time of the machine, local hours ahead of UTC.
to_dt(s, local) ==
    IF s.zone = "Z" THEN s.wall - UtcOffset("+00:00")
    ELSE IF ~HasSign(s) THEN s.wall - UtcOffset("+00:00")
    ELSE IF s.zone = "" THEN s.wall - local
    ELSE s.wall - UtcOffset(s.zone)

\* sorted(items, key=...): Python's sort is stable
RECURSIVE InsertByKey(_, _, _)
InsertByKey(sorted, it, local) ==
    IF sorted = <<>> THEN <<it>>
    ELSE LET last == sorted[Len(sorted)]
         IN  IF to_dt(last.creation_date, local) <= to_dt(it.creation_date, local)
             THEN Append(sorted, it)
             ELSE Append(InsertByKey(SubSeq(sorted, 1, Len(sorted) - 1), it, local), last)

RECURSIVE SortedByCreation(_, _)
SortedByCreation(items, local) ==
    IF items = <<>> THEN <<>>
    ELSE InsertByKey(SortedByCreation(SubSeq(items, 1, Len(items) - 1), local),
                     items[Len(items)], local)

\* f"{team} aus {village} [en dash] {'bestaetigt' if paid else 'unbestaetigt'}"
DisplayText(team, village, paid) ==
    team \o <<AUS>> \o village \o <<SPACE, ENDASH, SPACE>>
         \o (IF paid THEN <<"bestaetigt">> ELSE <<"un", "bestaetigt">>)

\* it.get(key, ""), lines 68-69
Get(it, key) == IF key \in it.absent THEN <<>> ELSE it[key]

\* line 65: the key function raises KeyError (no creation_date) or ValueError
\* (fromisoformat does not parse it) for some item, and so does make_rows
make_rows_raises(payload) ==
    \E i \in 1..Len(payload) :
        \/ "creation_date" \in payload[i].absent
        \/ payload[i].creation_date.zone = "garbled"

\* local: the zone of the machine, which astimezone reads from the environment
make_rows(payload, local) ==
    LET ordered == SortedByCreation(payload, local)
    IN  [pos \in 1..Len(ordered) |->
            LET it == ordered[pos]
                team == Strip(Get(it, TEAM_NAME_COL))
                village == Strip(Get(it, VILLAGE_COL))
                paid == "label_names" \notin it.absent /\ LABEL_PAID \in it.label_names
            IN  <<pos, DisplayText(team, village, paid), paid>>]

\* variant: cancelled records are kept
StripNothing(data) == data

\* fetch_persons, line 51: strip cancellations
StripCancelled(data) == SelectSeq(data, LAMBDA d : d.cancellation_date = "")

\* variant: the paid flag is left out of the serialisation
json_dumps_unpaid(rs) == [i \in 1..Len(rs) |-> <<ToString(rs[i][1]), rs[i][2]>>]

\* json.dumps(rows, separators=(",", ":"), sort_keys=True)
json_dumps(rs) ==
    [i \in 1..Len(rs) |-> <<ToString(rs[i][1]), rs[i][2],
                             IF rs[i][3] THEN "true" ELSE "false">>]

fingerprint(rs) == <<"sha256", json_dumps(rs)>>

\* variant: the threshold compared with <= instead of <
SnapshotDueAfter(c) == ~((c + 1) * poll_seconds <= SnapshotEvery)

\* _maybe_snapshot: the counter after the call, and whether a snapshot is written
SnapshotDue(c) == ~((c + 1) * poll_seconds < SnapshotEvery)
CounterAfter(c) == IF SnapshotDue(c) THEN 0 ELSE c + 1

\* ---------------------------------------------------------- sheets_handler
Py(b) == IF b THEN "True" ELSE "False"

\* variant: no gap for the separator block
row_for_position_packed(pos) == pos + 1

\* variant: the reserved capacity compared with < instead of <=
row_for_position_strict(pos) == IF pos < reserved THEN pos + 1 ELSE pos + 4

row_for_position(pos) == IF pos <= reserved THEN pos + 1 ELSE pos + 4

SeparatorBlock(r) == (r + 2)..(r + 4)

\* the rows of the worksheet the program can touch; every other row stays blank
SheetRows(r) ==
    {1} \cup {IF p <= r THEN p + 1 ELSE p + 4 : p \in 1..MaxN} \cup SeparatorBlock(r)

BlankRow == <<"", <<>>>>

\* _ensure_worksheet: header row, two blanks + "Warteliste"
SheetAfterSetup(r) ==
    [i \in SheetRows(r) |->
        IF i = 1 THEN <<"Startplatz", <<"Mannschaft">>>>
        ELSE IF i = r + 4 THEN <<"", <<"Warteliste">>>>
        ELSE BlankRow]

\* values().get: trailing empty cells of a row are omitted
TrimRow(cells) ==
    IF cells[2] # <<>> THEN cells
    ELSE IF cells[1] # "" THEN <<cells[1]>>
    ELSE <<>>

ValueRow(sh, idx) == IF idx \in DOMAIN sh THEN TrimRow(sh[idx]) ELSE <<>>

\* values().get: trailing empty rows are omitted
LastValueRow(sh) ==
    LET filled == {i \in DOMAIN sh : i >= 2 /\ Len(TrimRow(sh[i])) > 0}
    IN  IF filled = {} THEN 1 ELSE CHOOSE i \in filled : \A j \in filled : j <= i

\* int(row[0]); 0 stands for "no decimal number" (ValueError)
ParseInt(str) ==
    IF \E n \in 0..MaxPos : ToString(n) = str
    THEN CHOOSE n \in 0..MaxPos : ToString(n) = str
    ELSE 0

\* variant: only the word is looked for, not the dash before it
is_paid_loose(c) == EndsWith(c, <<"bestaetigt">>)

\* _read_sheet.is_paid
is_paid(c) ==
    \/ EndsWith(c, <<ENDASH, SPACE, "bestaetigt">>)
    \/ EndsWith(c, <<HYPHEN, SPACE, "bestaetigt">>)

\* a dict keeps the place of a key that is assigned again
HasKey(d, team) == \E i \in 1..Len(d) : d[i].team = team
Lookup(d, team) == d[CHOOSE i \in 1..Len(d) : d[i].team = team]
\* variant: the first row of a team name keeps the key
DictPutFirst(d, e) == IF HasKey(d, e.team) THEN d ELSE Append(d, e)

DictPut(d, e) ==
    IF HasKey(d, e.team)
    THEN [d EXCEPT ![CHOOSE i \in 1..Len(d) : d[i].team = e.team] = e]
    ELSE Append(d, e)

\* _read_sheet, the body of the loop over enumerate(rows, start=2)
ReadRow(out, idx, row) ==
    IF idx \in SeparatorBlock(reserved) THEN out
    ELSE IF Len(row) = 0 THEN out
    ELSE LET cell == IF Len(row) > 1 THEN row[2] ELSE <<>>
         IN  IF Strip(cell) = <<"Warteliste">> THEN out
             ELSE LET team == IF Contains(cell, AUS) THEN SplitFirst(cell, AUS) ELSE cell
                      paid == is_paid(cell)
                      pos == ParseInt(row[1])
                  IN  DictPut(out, [team |-> team, row |-> idx, pos |-> pos,
                                    paid |-> paid, text |-> cell])

\* _read_sheet, the loop over enumerate(rows, start=2), in ascending order of idx;
\* idxs are the rows of the response that the worksheet model holds (the others are
\* empty and the loop skips them)
RECURSIVE ReadRows(_, _)
ReadRows(sh, idxs) ==
    IF idxs = {} THEN <<>>
    ELSE LET idx == CHOOSE i \in idxs : \A j \in idxs : j <= i
             out == ReadRows(sh, idxs \ {idx})
         IN  ReadRow(out, idx, ValueRow(sh, idx))

_read_sheet(sh) == ReadRows(sh, {i \in DOMAIN sh : 2 <= i /\ i <= LastValueRow(sh)})

get_current(sh) == _read_sheet(sh)

\* _batch_write: the ranges are written in the order of the list
RECURSIVE _batch_write(_, _)
_batch_write(sh, ups) ==
    IF ups = <<>> THEN sh
    ELSE LET r == Head(ups)[1]
             vals == Head(ups)[2]
         IN  _batch_write(IF r \in DOMAIN sh THEN [sh EXCEPT ![r] = vals] ELSE sh,
                          Tail(ups))

\* _colour_rows: the repeatCell requests are applied in the order of the list
ColourOf(paid) ==
    IF paid = "None" THEN "white" ELSE IF paid = "True" THEN "green" ELSE "red"

RECURSIVE _colour_rows(_, _)
_colour_rows(col, fmts) ==
    IF fmts = <<>> THEN col
    ELSE LET r == Head(fmts)[1]
             paid == Head(fmts)[2]
         IN  _colour_rows(IF r \in DOMAIN col THEN [col EXCEPT ![r] = ColourOf(paid)] ELSE col,
                          Tail(fmts))

\* -------------------------------------------------------------------- main
TeamOf(text) == SplitFirst(text, AUS)

RowUpdate(r) == <<row_for_position(r[1]), <<ToString(r[1]), r[2]>>>>

\* variant: only a stored team whose text changed is written, a new team is not
UpsertOneChanged(current, r) ==
    LET team == TeamOf(r[2])
    IN  IF HasKey(current, team) /\ Lookup(current, team).text # r[2]
        THEN <<RowUpdate(r)>>
        ELSE <<>>

\* variant: a stored team is also written when its stored position differs
UpsertOnePositioned(current, r) ==
    LET team == TeamOf(r[2])
    IN  IF HasKey(current, team)
        THEN IF Lookup(current, team).text # r[2] \/ Lookup(current, team).pos # r[1]
             THEN <<RowUpdate(r)>> ELSE <<>>
        ELSE <<RowUpdate(r)>>

\* main, lines 52-56: the Update a row of the RowSet enqueues, if any
UpsertOne(current, r) ==
    LET team == TeamOf(r[2])
    IN  IF HasKey(current, team)
        THEN IF Lookup(current, team).text # r[2] THEN <<RowUpdate(r)>> ELSE <<>>
        ELSE <<RowUpdate(r)>>

\* main, lines 47-58: updates after the loop over rows
RECURSIVE UpsertUpdates(_, _)
UpsertUpdates(current, rs) ==
    IF rs = <<>> THEN <<>>
    ELSE UpsertUpdates(current, SubSeq(rs, 1, Len(rs) - 1))
            \o UpsertOne(current, rs[Len(rs)])

\* main, line 58: formats after the loop over rows
UpsertFormats(rs) ==
    [i \in 1..Len(rs) |-> <<row_for_position(rs[i][1]), Py(rs[i][3])>>]

Seen(rs) == {TeamOf(rs[i][2]) : i \in 1..Len(rs)}

\* variant: every stored entry is cleared, seen or not
DisappearedAll(current, rs) == current

\* main, lines 61-64: the entries of current whose team disappeared
Disappeared(current, rs) == SelectSeq(current, LAMBDA e : e.team \notin Seen(rs))

ClearUpdates(current, rs) ==
    LET gone == Disappeared(current, rs)
    IN  [i \in 1..Len(gone) |-> <<gone[i].row, BlankRow>>]

ClearFormats(current, rs) ==
    LET gone == Disappeared(current, rs)
    IN  [i \in 1..Len(gone) |-> <<gone[i].row, "None">>]

\* variant: only the rows that get an Update are coloured
ReconcileFormatsWritten(current, rs) ==
    LET written == SelectSeq(rs, LAMBDA r : UpsertOne(current, r) # <<>>)
    IN  [i \in 1..Len(written) |-> <<row_for_position(written[i][1]), Py(written[i][3])>>]
            \o ClearFormats(current, rs)

\* main, lines 42-64
ReconcileUpdates(current, rs) == UpsertUpdates(current, rs) \o ClearUpdates(current, rs)
ReconcileFormats(current, rs) == UpsertFormats(rs) \o ClearFormats(current, rs)

\* ------------------------------------------------------------------ actions
Init ==
    /\ tz \in LoopOffsets
    /\ fetched = <<>>
    /\ reserved \in ReservedChoices
    /\ poll_seconds \in PollChoices
    /\ counter = 0
    /\ sheet = SheetAfterSetup(reserved)
    /\ colour = [i \in SheetRows(reserved) |-> "white"]
    /\ last_fp = None
    /\ pc = "fetch"
    /\ rows = <<>>
    /\ fp = None
    /\ updates = <<>>
    /\ formats = <<>>
    /\ status = ""
    /\ retry = <<>>
    /\ probe = <<>>

Config == <<reserved, poll_seconds, probe, tz, fetched>>

\* variant: the exception is not caught and ends the loop
RaiseUncaught ==
    /\ status' = "failed"
    /\ pc' = "stopped"
    /\ rows' = <<>>
    /\ fp' = None
    /\ updates' = <<>>
    /\ formats' = <<>>

\* the except clause of main, lines 75-79; the locals of the tick are dead from here on
Raise ==
    /\ status' = "failed"
    /\ pc' = "sleep"
    /\ rows' = <<>>
    /\ fp' = None
    /\ updates' = <<>>
    /\ formats' = <<>>

\* line 33: _fetch raises (network, HTTP status, missing token)
FetchRaises ==
    /\ pc = "fetch"
    /\ Raise
    /\ UNCHANGED <<Config, counter, sheet, colour, last_fp, retry>>

\* line 33: _fetch answers, _save_persons_to_csv raises
SnapshotRaises ==
    /\ pc = "fetch"
    /\ SnapshotDue(counter)
    /\ counter' = CounterAfter(counter)
    /\ Raise
    /\ UNCHANGED <<Config, sheet, colour, last_fp, retry>>

\* line 33: the RowSets api.make_rows(api.fetch_persons()) can return
FetchedRowSets(n) ==
    {make_rows(StripCancelled(payload), local) : payload \in Payloads(n), local \in LoopOffsets}
AllRowSets == FetchedRowSets(MaxN)
LoopRowSets == FetchedRowSets(MaxLoopN)

\* variant: no comparison with last_fp, every tick reads the store
FetchUngated(rs) ==
    /\ pc = "fetch"
    /\ counter' = CounterAfter(counter)
    /\ rows' = rs
    /\ fp' = fingerprint(rs)
    /\ pc' = "read"
    /\ retry' = IF retry # <<>> /\ retry[1] # rs THEN <<>> ELSE retry
    /\ UNCHANGED <<Config, sheet, colour, last_fp, updates, formats, status>>

\* lines 33-37: fetch, build, fingerprint, compare
Fetch(rs) ==
    /\ pc = "fetch"
    /\ counter' = CounterAfter(counter)
    /\ rows' = rs
    /\ fp' = fingerprint(rs)
    /\ IF fp' = last_fp
       THEN pc' = "sleep_skip"
       ELSE pc' = "read"
    /\ retry' = IF retry # <<>> /\ retry[1] # rs THEN <<>> ELSE retry
    /\ UNCHANGED <<Config, sheet, colour, last_fp, updates, formats, status>>

\* line 40: get_current raises
ReadRaises ==
    /\ pc = "read"
    /\ Raise
    /\ UNCHANGED <<Config, counter, sheet, colour, last_fp, retry>>

\* lines 40-64: read the sheet and reconcile
Reconcile ==
    /\ pc = "read"
    /\ LET current == get_current(sheet)
       IN  /\ updates' = ReconcileUpdates(current, rows)
           /\ formats' = ReconcileFormats(current, rows)
    /\ pc' = "write"
    /\ UNCHANGED <<Config, counter, sheet, colour, last_fp, rows, fp, status, retry>>

\* variant: last_fp = fp assigned before apply_changes, so kept when it raises
WriteRaisesAccepted ==
    /\ pc = "write"
    /\ updates # <<>>
    /\ Raise
    /\ retry' = <<rows>>
    /\ last_fp' = fp
    /\ UNCHANGED <<Config, counter, sheet, colour>>

\* line 67, apply_changes: _batch_write raises, nothing is written
WriteRaises ==
    /\ pc = "write"
    /\ updates # <<>>
    /\ Raise
    /\ retry' = <<rows>>
    /\ UNCHANGED <<Config, counter, sheet, colour, last_fp>>

\* variant: apply_changes colours the rows before it writes the cells
WriteColoursFirst ==
    /\ pc = "write"
    /\ colour' = _colour_rows(colour, formats)
    /\ pc' = "colour"
    /\ UNCHANGED <<Config, counter, sheet, last_fp, rows, fp, updates, formats, status, retry>>

\* line 67, apply_changes: _batch_write
Write ==
    /\ pc = "write"
    /\ sheet' = _batch_write(sheet, updates)
    /\ pc' = "colour"
    /\ UNCHANGED <<Config, counter, colour, last_fp, rows, fp, updates, formats, status, retry>>

\* line 67, apply_changes: _colour_rows raises after the cells were written
ColourRaises ==
    /\ pc = "colour"
    /\ formats # <<>>
    /\ Raise
    /\ retry' = <<rows>>
    /\ UNCHANGED <<Config, counter, sheet, colour, last_fp>>

\* lines 67-73: _colour_rows, then last_fp = fp
Colour ==
    /\ pc = "colour"
    /\ colour' = _colour_rows(colour, formats)
    /\ last_fp' = fp
    /\ status' = "synced"
    /\ pc' = "sleep"
    /\ UNCHANGED <<Config, counter, sheet, rows, fp, updates, formats, retry>>

\* lines 36-37 and 79: time.sleep, then the next iteration
Sleep ==
    /\ pc \in {"sleep", "sleep_skip"}
    /\ pc' = "fetch"
    /\ rows' = <<>>
    /\ fp' = None
    /\ updates' = <<>>
    /\ formats' = <<>>
    /\ status' = ""
    /\ retry' = IF status = "synced" THEN <<>> ELSE retry
    /\ UNCHANGED <<Config, counter, sheet, colour, last_fp>>

Tick(rowsets) ==
    \/ FetchRaises
    \/ SnapshotRaises
    \/ \E rs \in rowsets : Fetch(rs)
    \/ ReadRaises
    \/ Reconcile
    \/ WriteRaises
    \/ Write
    \/ ColourRaises
    \/ Colour
    \/ Sleep

Next == Tick(AllRowSets)

Spec == Init /\ [][Next]_vars

\* the loop while no two active records of a payload render the same team name
DistinctRowSets ==
    {rs \in AllRowSets :
        \A i, j \in 1..Len(rs) : i # j => SplitFirst(rs[i][2], AUS) # SplitFirst(rs[j][2], AUS)}

\* no physical row is the target of two entries of a batch
TargetsOnce(batch) ==
    \A i, j \in 1..Len(batch) : batch[i][1] = batch[j][1] => i = j

\* ... and while no batch that targets a row twice is applied (such a tick stops at
\* an exception instead), so that nothing rests on how the Sheets API orders the
\* overlapping writes of one batch
NextDistinct ==
    /\ Tick(DistinctRowSets)
    /\ (pc = "write" /\ pc' = "colour") => (TargetsOnce(updates) /\ TargetsOnce(formats))

SpecDistinct == Init /\ [][NextDistinct]_vars

\* the loop while the source only grows and shrinks at its tail: position k is always
\* held by the same team, so no team ever changes position
Roster == <<<<"A">>, <<"B">>, <<"C">>, <<"D">>>>

TailRowSets ==
    {rs \in AllRowSets :
        \A k \in 1..Len(rs) : k <= Len(Roster) /\ SplitFirst(rs[k][2], AUS) = Roster[k]}

NextTail == Tick(TailRowSets)

SpecTail == Init /\ [][NextTail]_vars

\* the loop with payloads of at most MaxLoopN records
NextLoop == Tick(LoopRowSets)

SpecLoop == Init /\ [][NextLoop]_vars

\* the loop runs whenever it can: nothing in main blocks between two statements
FairLoop == SpecLoop /\ WF_vars(NextLoop)

\* ------------------------------------------------- the Reconciler on its own
ReservedProbes == {1, DefaultReserved}

StoredCells ==
    {<<a, b>> : a \in {"", "1"},
                b \in {<<>>, <<"Warteliste">>}
                       \cup {DisplayText(t, v, p) : t \in TeamNames, v \in VillageNames,
                                                      p \in BOOLEAN}}

DataRows(r) == SheetRows(r) \ ({1} \cup SeparatorBlock(r))

\* any content of the data rows, around the rows _ensure_worksheet wrote
AnySheets(r) ==
    {[i \in SheetRows(r) |-> IF i \in DataRows(r) THEN d[i] ELSE SheetAfterSetup(r)[i]] :
        d \in [DataRows(r) -> StoredCells]}

InitReconcile ==
    /\ tz \in LoopOffsets
    /\ fetched = <<>>
    /\ reserved \in ReservedProbes
    /\ poll_seconds \in PollChoices
    /\ counter = 0
    /\ sheet \in AnySheets(reserved)
    /\ colour = [i \in SheetRows(reserved) |-> "white"]
    /\ last_fp = None
    /\ pc = "read"
    /\ rows \in AllRowSets
    /\ fp = fingerprint(rows)
    /\ updates = <<>>
    /\ formats = <<>>
    /\ status = ""
    /\ retry = <<>>
    /\ probe = <<>>

NextReconcile == Reconcile

SpecReconcile == InitReconcile /\ [][NextReconcile]_vars

\* ------------------------------------------- the Position Mapper on its own
MapperReserved == {1, 2, 3, DefaultReserved}

InitMapper ==
    /\ tz \in LoopOffsets
    /\ fetched = <<>>
    /\ reserved \in MapperReserved
    /\ poll_seconds \in PollChoices
    /\ counter = 0
    /\ sheet = SheetAfterSetup(reserved)
    /\ colour = [i \in SheetRows(reserved) |-> "white"]
    /\ last_fp = None
    /\ pc = "fetch"
    /\ rows = <<>>
    /\ fp = None
    /\ updates = <<>>
    /\ formats = <<>>
    /\ status = ""
    /\ retry = <<>>
    /\ probe = <<>>

\* main, line 48: row_idx = sheet.row_for_position(pos), keeping the previous result
MapPosition ==
    /\ \E pos \in 1..MaxPos :
          probe' = <<pos, row_for_position(pos)>>
                      \o (IF probe = <<>> THEN <<>> ELSE <<probe[1], probe[2]>>)
    /\ UNCHANGED <<reserved, poll_seconds, counter, sheet, colour, last_fp, pc, rows, fp,
                   updates, formats, status, retry, tz, fetched>>

NextMapper == MapPosition

SpecMapper == InitMapper /\ [][NextMapper]_vars

\* ------------------------------------------------------ the loop interrupted
\* where the KeyboardInterrupt was raised: the statement of main that was running
StoppedAt(p) ==
    CASE p = "fetch" -> "stopped_fetch"
      [] p = "read" -> "stopped_read"
      [] p = "write" -> "stopped_write"
      [] p = "colour" -> "stopped_colour"
      [] p \in {"sleep", "sleep_skip"} -> "stopped_sleep"

\* main, lines 83-87: KeyboardInterrupt is no Exception, so line 75 does not catch it;
\* it is raised in whatever statement runs when the signal arrives, leaves main and
\* ends the process.  Nothing of the running tick is undone or completed.
Interrupt ==
    /\ pc \in {"fetch", "read", "write", "colour", "sleep", "sleep_skip"}
    /\ pc' = StoppedAt(pc)
    /\ UNCHANGED <<Config, counter, sheet, colour, last_fp, rows, fp, updates, formats,
                   status, retry>>

NextInterrupt == NextLoop \/ Interrupt

SpecInterrupt == Init /\ [][NextInterrupt]_vars

\* ------------------------------------------------- the Row Builder on its own
MaxBuild == 2

\* creation_date strings: "...T00:00:00Z", "...T01:00:00", "...T01:00:00+01:00",
\* "...T00:00:00-01:00" and the date alone
BuilderStamps ==
    {[wall |-> 0, zone |-> "Z", short |-> FALSE],
     [wall |-> 1, zone |-> "", short |-> FALSE],
     [wall |-> 1, zone |-> "+01:00", short |-> FALSE],
     [wall |-> 0, zone |-> "-01:00", short |-> FALSE],
     [wall |-> 0, zone |-> "", short |-> TRUE]}

BuilderOffsets == {0, 1}

BuilderRecords ==
    [team : TeamNames, village : VillageNames, label_names : LabelSets,
     creation_date : BuilderStamps, cancellation_date : CancellationDates, absent : {{}}]

InitBuild(records) ==
    /\ tz \in BuilderOffsets
    /\ fetched \in SeqsUpTo(records, MaxBuild)
    /\ reserved \in ReservedChoices
    /\ poll_seconds \in PollChoices
    /\ counter = 0
    /\ sheet = SheetAfterSetup(reserved)
    /\ colour = [i \in SheetRows(reserved) |-> "white"]
    /\ last_fp = None
    /\ pc = "fetch"
    /\ rows = <<>>
    /\ fp = None
    /\ updates = <<>>
    /\ formats = <<>>
    /\ status = ""
    /\ retry = <<>>
    /\ probe = <<>>

\* main, line 33, on the data _fetch returned
FetchAndBuild ==
    /\ ~make_rows_raises(StripCancelled(fetched))
    /\ Fetch(make_rows(StripCancelled(fetched), tz))

\* main, line 33: make_rows raises
BuildRaises ==
    /\ pc = "fetch"
    /\ make_rows_raises(StripCancelled(fetched))
    /\ counter' = CounterAfter(counter)
    /\ Raise
    /\ UNCHANGED <<Config, sheet, colour, last_fp, retry>>

NextBuilder == FetchAndBuild \/ Reconcile

InitBuilder == InitBuild(BuilderRecords)

SpecBuilder == InitBuilder /\ [][NextBuilder]_vars

\* --------------------------------------------------- fingerprint on its own
MaxFp == 2

FpTexts == {DisplayText(<<"A">>, <<"X">>, TRUE), DisplayText(<<"A">>, <<"X">>, FALSE)}

\* lists of (position, text, paid), also ones make_rows does not build
FpPositions == {1, 2}

FpRowSets == SeqsUpTo({<<p, t, b>> : p \in FpPositions, t \in FpTexts, b \in BOOLEAN}, MaxFp)

\* main, line 34: fp = CampflowAPI.fingerprint(rows), called twice, keeping the first call
FingerprintRowSet ==
    /\ Len(probe) < 4
    /\ \E rs \in FpRowSets :
          probe' = <<rs, fingerprint(rs)>>
                      \o (IF probe = <<>> THEN <<>> ELSE <<probe[1], probe[2]>>)
    /\ UNCHANGED <<reserved, poll_seconds, counter, sheet, colour, last_fp, pc, rows, fp,
                   updates, formats, status, retry, tz, fetched>>

NextFingerprint == FingerprintRowSet

SpecFingerprint == Init /\ [][NextFingerprint]_vars

\* ------------------------------------- the Row Builder on malformed records
\* a parseable creation_date and one fromisoformat rejects
MalformedStamps ==
    {[wall |-> 0, zone |-> "Z", short |-> FALSE],
     [wall |-> 0, zone |-> "garbled", short |-> FALSE]}

MalformedRecords ==
    [team : TeamNames, village : VillageNames, label_names : {{}},
     creation_date : MalformedStamps, cancellation_date : {""},
     absent : SUBSET {"creation_date", TEAM_NAME_COL}]

InitMalformed == InitBuild(MalformedRecords)

NextMalformed == FetchAndBuild \/ BuildRaises \/ Reconcile \/ Sleep

SpecMalformed == InitMalformed /\ [][NextMalformed]_vars

\* ------------------------------------------- rendering and reading back a Row
RenderTeams == {<<"A">>, <<SPACE, "A", SPACE>>, <<"A", SPACE, "B">>}
RenderVillages == {<<"X">>, <<SPACE, "X">>}
RenderLabels == {{}, {"Bezahlt"}, {"bezahlt"}, {"Bezahlt", "VIP"}}

\* all records carry the same creation_date, so the Rows come in input order
RenderRecords ==
    [team : RenderTeams, village : RenderVillages, label_names : RenderLabels,
     creation_date : {[wall |-> 0, zone |-> "Z", short |-> FALSE]},
     cancellation_date : {""}, absent : {{}}]

InitRender == InitBuild(RenderRecords)

\* one tick on an empty worksheet
NextRender == FetchAndBuild \/ Reconcile \/ Write \/ Colour

SpecRender == InitRender /\ [][NextRender]_vars

\* ------------------------------------ one tick's batch applied to any worksheet
\* reconcile against any stored content, then apply_changes without failure
NextFrame == Reconcile \/ Write \/ Colour

SpecFrame == InitReconcile /\ [][NextFrame]_vars

\* ----------------------------------------------- the snapshot file over the ticks
\* POLL_SECONDS 0.5 (the default), 3 and 10 seconds
SnapshotPolls == {5, 30, 100}

SnapshotRecords ==
    [team : {<<"A">>}, village : VillageNames, label_names : {{}},
     creation_date : {[wall |-> 10, zone |-> "Z", short |-> FALSE]},
     cancellation_date : CancellationDates, absent : {{}}]

SnapshotPayloads == SeqsUpTo(SnapshotRecords, MaxLoopN)

\* probe holds the CSV file, what the latest _maybe_snapshot call did about it
\* ("none": returned early, "saved", "raised") and the number of calls since
\* the last one that reached _save_persons_to_csv
NoCsv == [state |-> "absent", data |-> <<>>]

InitSnapshot ==
    /\ tz \in LoopOffsets
    /\ fetched = <<>>
    /\ reserved \in ReservedChoices
    /\ poll_seconds \in SnapshotPolls
    /\ counter = 0
    /\ sheet = SheetAfterSetup(reserved)
    /\ colour = [i \in SheetRows(reserved) |-> "white"]
    /\ last_fp = None
    /\ pc = "fetch"
    /\ rows = <<>>
    /\ fp = None
    /\ updates = <<>>
    /\ formats = <<>>
    /\ status = ""
    /\ retry = <<>>
    /\ probe = [csv |-> NoCsv, snapshot |-> "none", since |-> 0]

\* line 33: fetch_persons with _maybe_snapshot returning, then make_rows
FetchPersons ==
    /\ pc = "fetch"
    /\ \E payload \in SnapshotPayloads :
          LET data == StripCancelled(payload)
              rs == make_rows(data, tz)
          IN  /\ counter' = CounterAfter(counter)
              /\ probe' = IF SnapshotDue(counter)
                          THEN [csv |-> [state |-> "written", data |-> data],
                                snapshot |-> "saved", since |-> 0]
                          ELSE [csv |-> probe.csv, snapshot |-> "none",
                                since |-> probe.since + 1]
              /\ rows' = rs
              /\ fp' = fingerprint(rs)
              /\ IF fp' = last_fp
                 THEN pc' = "sleep_skip"
                 ELSE pc' = "read"
              /\ retry' = IF retry # <<>> /\ retry[1] # rs THEN <<>> ELSE retry
    /\ UNCHANGED <<reserved, poll_seconds, tz, fetched, sheet, colour, last_fp,
                   updates, formats, status>>

\* line 33: _save_persons_to_csv raises; the file is untouched (mkdir or open
\* failed) or truncated (a write failed)
SaveRaises ==
    /\ pc = "fetch"
    /\ SnapshotDue(counter)
    /\ counter' = CounterAfter(counter)
    /\ \E file \in {probe.csv, [state |-> "partial", data |-> <<>>]} :
          probe' = [csv |-> file, snapshot |-> "raised", since |-> 0]
    /\ Raise
    /\ UNCHANGED <<reserved, poll_seconds, tz, fetched, sheet, colour, last_fp, retry>>

NextSnapshot ==
    \/ FetchRaises
    \/ FetchPersons
    \/ SaveRaises
    \/ ReadRaises
    \/ Reconcile
    \/ WriteRaises
    \/ Write
    \/ ColourRaises
    \/ Colour
    \/ Sleep

SpecSnapshot == InitSnapshot /\ [][NextSnapshot]_vars

\* ================================================================== claims
Synced == pc = "sleep" /\ status = "synced"

\* the Row of the RowSet rs that belongs at physical row i, as a set (empty or one Row)
RowsAt(rs, i) == {k \in 1..Len(rs) : row_for_position(rs[k][1]) = i}

\* the cells of every data row are (position, displayText) of its Row, or blank
CellsInLine(sh, rs) ==
    \A i \in DataRows(reserved) :
        IF RowsAt(rs, i) # {}
        THEN \A k \in RowsAt(rs, i) : sh[i] = <<ToString(rs[k][1]), rs[k][2]>>
        ELSE sh[i] = BlankRow

\* the colour of every data row is the paid colour of its Row, or the neutral colour
ColoursInLine(col, rs) ==
    \A i \in DataRows(reserved) :
        IF RowsAt(rs, i) # {}
        THEN \A k \in RowsAt(rs, i) : col[i] = ColourOf(Py(rs[k][3]))
        ELSE col[i] = "white"

\* C1 (convergence): after a tick in which fetch, build, store read and apply all
\* succeeded, the store holds (position, displayText) at physicalRow(position) for
\* every Row of the RowSet and blank cells in every other data row.
C1_Convergence == Synced => CellsInLine(sheet, rows)

\* C2 (eventual consistency after a partial apply): when the apply of a tick raised
\* and the source kept yielding the same RowSet, the next tick that succeeds leaves the
\* cells and the colours of the store in line with the RowSet, the neutral colour on
\* the blanked rows included.
C2_ConsistentAfterPartialApply ==
    (Synced /\ retry = <<rows>>) => (CellsInLine(sheet, rows) /\ ColoursInLine(colour, rows))

\* C3 (minimal writes): the Reconciler never enqueues an Update for a physical row
\* whose position cell and text cell already equal the values the Update would write.
C3_MinimalWrites ==
    pc = "write" => \A k \in 1..Len(updates) : sheet[updates[k][1]] # updates[k][2]

\* C4 (idempotence): running the Reconciler again on the same RowSet against the store
\* that resulted from applying its instructions yields zero Updates and exactly N
\* ColorInstructions.
C4_Idempotence ==
    Synced =>
        LET current == get_current(sheet)
        IN  /\ ReconcileUpdates(current, rows) = <<>>
            /\ Len(ReconcileFormats(current, rows)) = Len(rows)

\* the entries of a batch that equal e
Same(batch, e) == {k \in 1..Len(batch) : batch[k] = e}

\* C5 (disappearance): for every team that is a key of the current entries and the team
\* of no Row, the output holds exactly one blanking Update and one neutral
\* ColorInstruction at the team's stored row; for a team that is in the RowSet it holds
\* neither at the team's stored row.
C5_Disappearance ==
    pc = "write" =>
        LET current == get_current(sheet)
        IN  \A i \in 1..Len(current) :
                LET e == current[i]
                    blanking == Same(updates, <<e.row, BlankRow>>)
                    neutral == Same(formats, <<e.row, "None">>)
                IN  IF \E k \in 1..Len(rows) : SplitFirst(rows[k][2], AUS) = e.team
                    THEN blanking = {} /\ neutral = {}
                    ELSE Cardinality(blanking) = 1 /\ Cardinality(neutral) = 1

\* a store entry has disappeared from the RowSet while another one is still in it
C5_Witness ==
    /\ pc = "write"
    /\ LET current == get_current(sheet)
       IN  /\ \E i \in 1..Len(current) :
                  \A k \in 1..Len(rows) : SplitFirst(rows[k][2], AUS) # current[i].team
           /\ \E i \in 1..Len(current) :
                  \E k \in 1..Len(rows) : SplitFirst(rows[k][2], AUS) = current[i].team

\* C6 (round trip on an empty store): against an empty current-entries map the output
\* is exactly one Update (physicalRow(position), [position, displayText]) per Row, in
\* order, N ColorInstructions and no blanking Update.
C6_EmptyStore ==
    (pc = "write" /\ Len(get_current(sheet)) = 0) =>
        /\ Len(updates) = Len(rows)
        /\ \A k \in 1..Len(rows) :
              /\ updates[k] = <<IF rows[k][1] <= reserved THEN rows[k][1] + 1 ELSE rows[k][1] + 4,
                                <<ToString(rows[k][1]), rows[k][2]>>>>
              /\ updates[k][2] # BlankRow
        /\ Len(formats) = Len(rows)

\* two Rows were reconciled against a store without entries
C6_Witness == pc = "write" /\ Len(get_current(sheet)) = 0 /\ Len(rows) >= 2

\* C7 (Position Mapper): physicalRow(pos) is pos + 1 up to the reserved capacity R and
\* pos + 4 beyond it, is injective, never the header row 1 nor a row of the separator
\* block [R+2, R+4], and for R = 72 maps 72 to 73 and 73 to 77.
C7_PositionMapper ==
    probe # <<>> =>
        /\ probe[2] = (IF probe[1] <= reserved THEN probe[1] + 1 ELSE probe[1] + 4)
        /\ probe[2] # 1
        /\ ~(reserved + 2 <= probe[2] /\ probe[2] <= reserved + 4)
        /\ (Len(probe) = 4 /\ probe[2] = probe[4]) => probe[1] = probe[3]
        /\ (reserved = 72 /\ probe[1] = 72) => probe[2] = 73
        /\ (reserved = 72 /\ probe[1] = 73) => probe[2] = 77

\* with R = 72 the positions 72 and 73 were mapped one after the other
C7_Witness == reserved = 72 /\ probe = <<73, 77, 72, 73>>

\* C8 (last-accepted fingerprint): last_fp changes only in the step that ends a tick
\* whose cell writes and colour writes succeeded, and becomes the fingerprint of the
\* RowSet reconciled in that tick; a tick that raises leaves it unchanged, so it still
\* differs from the fingerprint of a RowSet whose tick raised and the next tick on the
\* same RowSet is not skipped.
C8_FingerprintDiscipline ==
    [][ /\ last_fp' # last_fp =>
              /\ pc = "colour" /\ pc' = "sleep" /\ status' = "synced"
              /\ colour' = _colour_rows(colour, formats)
              /\ rows' = rows
              /\ last_fp' = fingerprint(rows)
        /\ status' = "failed" => last_fp' = last_fp
        /\ (status' = "failed" /\ pc \in {"read", "write", "colour"}) =>
              last_fp' # fingerprint(rows)
        /\ pc' = "sleep_skip" => retry' = <<>>
      ]_vars

\* after an accepted RowSet, the apply of a tick on another RowSet has raised
C8_Witness ==
    /\ pc = "sleep" /\ status = "failed"
    /\ retry # <<>>
    /\ last_fp # None
    /\ last_fp # fingerprint(retry[1])

\* C9 (fingerprint gate): a tick goes on to read the store exactly when the fingerprint
\* of its RowSet differs from last_fp; when they are equal it sleeps without reading or
\* writing the store; with no fingerprint accepted yet it always goes on, also for an
\* empty RowSet.
C9_FingerprintGate ==
    [][ /\ (pc = "fetch" /\ status' # "failed") =>
              /\ pc' \in {"read", "sleep_skip"}
              /\ pc' = "read" <=> fingerprint(rows') # last_fp
              /\ last_fp = None => pc' = "read"
        /\ pc' \in {"read", "write"} \/ sheet' # sheet \/ colour' # colour =>
              fingerprint(rows') # last_fp
        /\ pc = "sleep_skip" =>
              pc' = "fetch" /\ sheet' = sheet /\ colour' = colour /\ last_fp' = last_fp
      ]_vars

\* an empty RowSet was reconciled and accepted, and the next tick on it is skipped
C9_Witness == pc = "sleep_skip" /\ rows = <<>> /\ last_fp = fingerprint(<<>>)

\* C10 (error containment and progress): an exception in any stage leads to the sleep
\* of line 79, every sleep is followed by the next tick, the loop never leaves its
\* stages, and it starts a tick again and again.
C10_LoopForever ==
    /\ [][ /\ status' = "failed" => pc' = "sleep"
           /\ pc \in {"sleep", "sleep_skip"} => pc' = "fetch"
           /\ pc' \in {"fetch", "read", "write", "colour", "sleep", "sleep_skip"}
           /\ pc' = "fetch" => pc \in {"sleep", "sleep_skip"}
         ]_vars
    /\ []<>(pc = "fetch")
    /\ []<>(pc \in {"sleep", "sleep_skip"})

\* the loop is at the start of a tick after a tick whose apply raised
C10_Witness == pc = "fetch" /\ retry # <<>>

\* C11 (interrupt handling): the loop is never stopped by an interrupt in a state where
\* the cell writes of a batch have been applied and its colour writes have not, i.e. in
\* apply_changes after _batch_write and before _colour_rows has returned.
C11_NeverStoppedMidApply ==
    ~(pc = "stopped_colour" /\ updates # <<>> /\ formats # <<>>)

\* the UTC instant a creation_date stands for: Z and no offset mean UTC, an embedded
\* offset is honoured
UtcInstant(s) ==
    s.wall - (CASE s.zone = "+01:00" -> 1 [] s.zone = "-01:00" -> 0 - 1 [] OTHER -> 0)

\* the records of the fetched data without a cancellation marker, in input order
ActiveRecords == SelectSeq(fetched, LAMBDA d : d.cancellation_date = "")

Orders(n) == {p \in [1..n -> 1..n] : \A i, j \in 1..n : p[i] = p[j] => i = j}

\* p lists the records by ascending instant, equal instants in input order
StableAscending(items, p) ==
    \A k, l \in DOMAIN p :
        k < l => \/ UtcInstant(items[p[k]].creation_date) < UtcInstant(items[p[l]].creation_date)
                 \/ /\ UtcInstant(items[p[k]].creation_date) = UtcInstant(items[p[l]].creation_date)
                    /\ p[k] < p[l]

\* C12 (Row Builder positions): for N active records make_rows returns N rows whose
\* positions are 1..N in output order, the rows being those of the records in ascending
\* order of the UTC instant of creation_date (Z and offset-less strings taken as UTC,
\* embedded offsets honoured), records of equal instant in their input order.
C12_RowBuilderPositions ==
    pc = "read" =>
        /\ Len(rows) = Len(ActiveRecords)
        /\ \A k \in 1..Len(rows) : rows[k][1] = k
        /\ \E p \in Orders(Len(ActiveRecords)) :
              /\ StableAscending(ActiveRecords, p)
              /\ \A k \in 1..Len(rows) :
                    LET it == ActiveRecords[p[k]]
                    IN  /\ rows[k][2] = DisplayText(it.team, it.village,
                                                     LABEL_PAID \in it.label_names)
                        /\ rows[k][3] = (LABEL_PAID \in it.label_names)

C14_CancelledNeverBuilt ==
    pc = "read" =>
        /\ Len(rows) = Cardinality({i \in 1..Len(fetched) : fetched[i].cancellation_date = ""})
        /\ rows = make_rows(ActiveRecords, tz)

\* a cancelled record was fetched before an active one, and one Row was built
C14_Witness ==
    /\ pc = "read"
    /\ Len(fetched) = 2
    /\ fetched[1].cancellation_date # ""
    /\ fetched[2].cancellation_date = ""
    /\ to_dt(fetched[1].creation_date, tz) < to_dt(fetched[2].creation_date, tz)
    /\ Len(rows) = 1 /\ rows[1][1] = 1

\* a record lacks a required field or has a creation_date that does not parse
Malformed(d) == d.absent # {} \/ d.creation_date.zone = "garbled"

WellFormedRecords == SelectSeq(fetched, LAMBDA d : ~Malformed(d))

\* C15 (malformed records): a malformed record does not make the tick fail; the tick
\* goes on with the remaining records, and this is so for every kind of malformed or
\* missing required field alike: the RowSet is the one of the well-formed records.
C15_MalformedSkipped ==
    /\ status # "failed"
    /\ pc \in {"read", "write"} => rows = make_rows(WellFormedRecords, tz)

\* the Update that writes Row r to its physical row
UpdateOf(r) ==
    <<IF r[1] <= reserved THEN r[1] + 1 ELSE r[1] + 4, <<ToString(r[1]), r[2]>>>>

\* the entries of the current-entries map under the team name of text
EntriesOf(current, text) ==
    {i \in 1..Len(current) : current[i].team = SplitFirst(text, AUS)}

\* C16 (update gate): for a Row whose team is a key of the current entries the updates
\* hold its Update (physicalRow(position), [position, displayText]) once if the stored
\* text differs from displayText and not at all if it is equal, whatever the stored
\* position; for a Row whose team is no key they hold it exactly once.
C16_UpdateGate ==
    pc = "write" =>
        LET current == get_current(sheet)
        IN  \A k \in 1..Len(rows) :
                LET stored == EntriesOf(current, rows[k][2])
                    n == Cardinality(Same(updates, UpdateOf(rows[k])))
                IN  /\ Cardinality(stored) <= 1
                    /\ stored = {} => n = 1
                    /\ \A i \in stored :
                          /\ current[i].text # rows[k][2] => n = 1
                          /\ current[i].text = rows[k][2] => n = 0

\* a Row whose team is stored with the same text at another position got no Update,
\* while another Row of the same reconcile got one
C16_Witness ==
    /\ pc = "write"
    /\ Len(rows) = 2
    /\ Len(updates) = 1
    /\ LET current == get_current(sheet)
       IN  \E k \in 1..2 : \E i \in EntriesOf(current, rows[k][2]) :
              /\ current[i].text = rows[k][2]
              /\ current[i].pos # rows[k][1]
              /\ Same(updates, UpdateOf(rows[k])) = {}

\* the ColorInstruction of Row r
ColourOfRow(r) ==
    <<IF r[1] <= reserved THEN r[1] + 1 ELSE r[1] + 4, IF r[3] THEN "True" ELSE "False">>

\* the current entries whose team is the team of no Row
DisappearedEntries(current, rs) ==
    {i \in 1..Len(current) :
        \A k \in 1..Len(rs) : SplitFirst(rs[k][2], AUS) # current[i].team}

\* C17 (unconditional colours): the formats hold exactly one ColorInstruction
\* (physicalRow(position), paid) for every Row, with or without an Update for it, and
\* N Rows with D disappeared teams give N + D ColorInstructions.
C17_UnconditionalColours ==
    pc = "write" =>
        /\ \A k \in 1..Len(rows) : Cardinality(Same(formats, ColourOfRow(rows[k]))) = 1
        /\ Len(formats) = Len(rows)
                + Cardinality(DisappearedEntries(get_current(sheet), rows))

\* a Row without Update was coloured in a reconcile that also cleared a team
C17_Witness ==
    /\ pc = "write"
    /\ \E k \in 1..Len(rows) :
          /\ Same(updates, UpdateOf(rows[k])) = {}
          /\ Same(formats, ColourOfRow(rows[k])) # {}
    /\ DisappearedEntries(get_current(sheet), rows) # {}

\* C18 (empty RowSet): reconciling an empty RowSet gives exactly one blanking Update
\* and one neutral ColorInstruction per current entry and nothing else, and after the
\* successful apply no data row of the store has content.
C18_EmptyRowSet ==
    /\ (pc = "write" /\ rows = <<>>) =>
          LET current == get_current(sheet)
          IN  /\ Len(updates) = Len(current)
              /\ Len(formats) = Len(current)
              /\ \A i \in 1..Len(current) :
                    /\ Cardinality(Same(updates, <<current[i].row, BlankRow>>)) = 1
                    /\ Cardinality(Same(formats, <<current[i].row, "None">>)) = 1
    /\ (Synced /\ rows = <<>>) => \A i \in DataRows(reserved) : sheet[i] = BlankRow

\* C19 (tick ordering): a tick goes through fetch-build-fingerprint, store read and
\* reconcile, cell writes, colour writes, recording of the fingerprint, in this order,
\* leaving the order only for the sleep; the next tick starts from the sleep only, so
\* the cells are written only in the cell-write step and the colours only in the
\* colour-write step of the one running tick.
C19_TickOrdering ==
    [][ /\ pc' # pc =>
              \/ pc = "fetch" /\ pc' \in {"read", "sleep_skip", "sleep"}
              \/ pc = "read" /\ pc' \in {"write", "sleep"}
              \/ pc = "write" /\ pc' \in {"colour", "sleep"}
              \/ pc = "colour" /\ pc' = "sleep"
              \/ pc \in {"sleep", "sleep_skip"} /\ pc' = "fetch"
        /\ pc' = "read" => fp' = fingerprint(rows')
        /\ pc' = "write" => updates' = ReconcileUpdates(get_current(sheet), rows)
        /\ sheet' # sheet => pc = "write" /\ pc' = "colour"
        /\ colour' # colour => pc = "colour" /\ pc' = "sleep"
        /\ last_fp' # last_fp => pc = "colour" /\ pc' = "sleep"
      ]_vars

\* the colour writes of a tick are due after an earlier tick has been accepted
C19_Witness == pc = "colour" /\ last_fp # None /\ updates # <<>> /\ formats # <<>>

\* the team-name key a stored text cell renders
StoredKey(cell) == IF \E n \in 1..Len(cell) : cell[n] = AUS THEN SplitFirst(cell, AUS) ELSE cell

\* the data rows of the store that hold an entry
EntryRows ==
    {i \in DataRows(reserved) : sheet[i] # BlankRow /\ sheet[i][2] # <<"Warteliste">>}

\* C20 (collision policy): when two store rows render the same team-name key, the
\* current entries hold one entry for the key, that of the larger physical row; every
\* Row of that team name is compared with the text of that entry; and the output of
\* the reconcile holds no blanking Update and no neutral ColorInstruction for the
\* smaller physical row.
C20_LastRowWins ==
    pc = "write" =>
        LET current == get_current(sheet)
        IN  \A i, j \in EntryRows :
                (i < j /\ StoredKey(sheet[i][2]) = StoredKey(sheet[j][2])) =>
                    LET key == StoredKey(sheet[j][2])
                        last == CHOOSE m \in EntryRows :
                                    /\ StoredKey(sheet[m][2]) = key
                                    /\ \A n \in EntryRows :
                                          StoredKey(sheet[n][2]) = key => n <= m
                        held == {e \in 1..Len(current) : current[e].team = key}
                    IN  /\ Cardinality(held) = 1
                        /\ \A e \in held : current[e].row = last
                                           /\ current[e].text = sheet[last][2]
                        /\ \A k \in 1..Len(rows) :
                              SplitFirst(rows[k][2], AUS) = key =>
                                  (Same(updates, UpdateOf(rows[k])) # {}
                                      <=> rows[k][2] # sheet[last][2])
                        /\ Same(updates, <<i, BlankRow>>) = {}
                        /\ Same(formats, <<i, "None">>) = {}

\* two store rows hold the same team with different texts, the team is in no Row, and
\* the larger row is blanked
C20_Witness ==
    /\ pc = "write"
    /\ \E i, j \in EntryRows :
          /\ i < j
          /\ StoredKey(sheet[i][2]) = StoredKey(sheet[j][2])
          /\ sheet[i][2] # sheet[j][2]
          /\ Len(StoredKey(sheet[i][2])) > 0
          /\ \A k \in 1..Len(rows) : SplitFirst(rows[k][2], AUS) # StoredKey(sheet[j][2])
          /\ Same(updates, <<j, BlankRow>>) # {}

\* ---------------------------------------------------------------- C21
\* the string without its leading and trailing blanks
Trimmed(s) ==
    LET inner == {i \in 1..Len(s) : s[i] # SPACE}
    IN  IF inner = {} THEN <<>>
        ELSE SubSeq(s, CHOOSE i \in inner : \A j \in inner : i <= j,
                       CHOOSE i \in inner : \A j \in inner : j <= i)

Built == pc \in {"read", "write", "colour", "sleep"} /\ Len(rows) = Len(fetched)

Written == pc \in {"colour", "sleep"} /\ Len(rows) = Len(fetched)

\* C21: for every record the Row's paid flag is true exactly when "Bezahlt"
\* is among the record's labels, its text is the trimmed team name, " aus ",
\* the trimmed village name, " - " (en dash) and "bestaetigt" when paid,
\* "unbestaetigt" otherwise; and the paid flag the store adapter derives
\* from that text, also once it is stored in the sheet, is the Row's flag.
C21_RowRendering ==
    /\ Built =>
        \A k \in 1..Len(rows) :
            /\ rows[k][3] = ("Bezahlt" \in fetched[k].label_names)
            /\ rows[k][2] = Trimmed(fetched[k].team) \o <<AUS>>
                            \o Trimmed(fetched[k].village) \o <<SPACE, ENDASH, SPACE>>
                            \o (IF rows[k][3] THEN <<"bestaetigt">>
                                ELSE <<"un", "bestaetigt">>)
            /\ is_paid(rows[k][2]) = rows[k][3]
    /\ Written =>
        \A k \in 1..Len(rows) :
            LET current == get_current(sheet)
            IN  /\ sheet[row_for_position(k)][2] = rows[k][2]
                /\ is_paid(sheet[row_for_position(k)][2]) = rows[k][3]
                /\ \A i \in 1..Len(current) :
                       current[i].row = row_for_position(k)
                           => current[i].paid = rows[k][3]

\* a paid and an unpaid record with padded names were rendered, written and
\* read back
C21_Witness ==
    /\ Written
    /\ Len(rows) = 2
    /\ rows[1][3] /\ ~rows[2][3]
    /\ fetched[1].team # Trimmed(fetched[1].team)
    /\ fetched[2].village # Trimmed(fetched[2].village)
    /\ Trimmed(fetched[1].team) # Trimmed(fetched[2].team)
    /\ \E i \in 1..Len(get_current(sheet)) :
           get_current(sheet)[i].row = row_for_position(2)
           /\ ~get_current(sheet)[i].paid

\* ---------------------------------------------------------------- C22
\* the rows _ensure_worksheet wrote: header, two blanks, waitlist label
FrameRows(r) == {1} \cup SeparatorBlock(r)

TargetsOutsideFrame(batch) ==
    \A k \in 1..Len(batch) : batch[k][1] >= 2 /\ batch[k][1] \notin SeparatorBlock(reserved)

FrameKept ==
    \A i \in FrameRows(reserved) : sheet'[i] = sheet[i] /\ colour'[i] = colour[i]

\* C22: every Update and every ColorInstruction handed to apply_changes
\* targets a physical row >= 2 outside the separator block [R+2, R+4], and
\* no step of the loop changes the header row, the two blank rows or the
\* waitlist label (neither their cells nor their colour).
C22_FrameInvariant ==
    /\ [](pc = "write" => TargetsOutsideFrame(updates) /\ TargetsOutsideFrame(formats))
    /\ [][FrameKept]_vars

\* with one reserved place, a batch that wrote the last reserved row and the
\* first waitlist row, on both sides of the separator block, and blanked a
\* row, was applied; the frame still reads as after setup
C22_Witness ==
    /\ pc = "sleep" /\ status = "synced"
    /\ reserved = 1
    /\ \E k \in 1..Len(updates) : updates[k][1] = reserved + 1 /\ updates[k][2] # BlankRow
    /\ \E k \in 1..Len(updates) : updates[k][1] = reserved + 5 /\ updates[k][2] = BlankRow
    /\ \E k \in 1..Len(formats) : formats[k][1] = reserved + 5
    /\ \A i \in FrameRows(reserved) : sheet[i] = SheetAfterSetup(reserved)[i]

\* ---------------------------------------------------------------- C23
\* C23: within one batch handed to apply_changes no physical row is
\* targeted by more than one Update nor by more than one ColorInstruction;
\* in particular no row gets a Row write and a blanking Update together.
C23_BatchConsistency ==
    pc = "write" => TargetsOnce(updates) /\ TargetsOnce(formats)

\* ---------------------------------------------------------------- C24
\* the smallest count K with K * poll_seconds >= 10 seconds
SnapshotCount ==
    CHOOSE k \in 1..SnapshotEvery :
        /\ k * poll_seconds >= SnapshotEvery
        /\ \A j \in 1..(k - 1) : j * poll_seconds < SnapshotEvery

\* a step of fetch_persons in which _fetch answered
FetchAnswered ==
    /\ pc = "fetch" /\ pc' # "fetch"
    /\ ~(status' = "failed" /\ counter' = counter /\ probe' = probe)

\* C24: every fetch that answers counts; the K-th one after the previous
\* snapshot, K the smallest count with K * poll_seconds >= 10, resets the
\* accumulator to 0 and takes the snapshot, the others add one and leave the
\* file alone; the accumulator is always in 0..K-1 between calls and is the
\* number of answered fetches since the last snapshot; a snapshot that
\* raises fails the fetch of that tick with the accumulator already at 0.
C24_SnapshotCadence ==
    /\ [](counter \in 0..(SnapshotCount - 1) /\ counter = probe.since)
    /\ [][FetchAnswered =>
            IF probe.since + 1 = SnapshotCount
            THEN /\ counter' = 0
                 /\ probe'.snapshot \in {"saved", "raised"}
                 /\ probe'.snapshot = "saved" =>
                        probe'.csv.state = "written" /\ status' # "failed"
                 /\ probe'.snapshot = "raised" =>
                        status' = "failed" /\ pc' = "sleep" /\ rows' = <<>>
            ELSE /\ counter' = counter + 1
                 /\ probe'.snapshot = "none"
                 /\ probe'.csv = probe.csv
                 /\ status' # "failed"]_vars

\* polling every 3 seconds, K = 4: a snapshot was saved, and the fourth
\* answered fetch after it raised in the snapshot; the tick failed with the
\* accumulator at 0
C24_Witness ==
    /\ poll_seconds = 30
    /\ SnapshotCount = 4
    /\ probe.snapshot = "raised"
    /\ probe.csv.state = "written"
    /\ counter = 0
    /\ status = "failed"

====
